---- MODULE Spec2Model ----
(***************************************************************************)
(* A model of depkit's DependencyManager (src/src/depkit/depmanager.py)    *)
(* and of the requirement utilities it calls (src/src/depkit/utils.py).    *)
(*                                                                         *)
(* Strings whose contents the code inspects (requirement specifiers, file  *)
(* names, dotted import paths) are sequences of one-character strings, so  *)
(* that str.split, str.strip, Path.stem and sorted() are computed.         *)
(***************************************************************************)
EXTENDS Integers, Sequences, FiniteSets, TLC

VARIABLES
    phase,          \* "new" | "alive" | "ctor_failed": the life of the one instance
    scripts,        \* self.scripts: sequence of script paths
    extra_paths,    \* self.extra_paths: sequence of directory names
    requirements,   \* self.requirements: sequence of requirement strings
    installed,      \* self._installed: set of requirement strings
    module_map,     \* self._module_map: stem -> path of the staged copy
    dir_exists,     \* self._scripts_dir exists on disk
    dir_files,      \* file names inside self._scripts_dir
    sys_path,       \* sys.path
    registry,       \* names importlib.metadata.distribution() finds
    last_op,        \* the last operation called on the instance
    last_arg,       \* its argument (the import path verified; force_install and the
                    \* answer of in_virtualenv() for the constructor, which alone
                    \* reads them)
    last_err,       \* what it raised to its caller (NoError if it returned)
    installer_calls,\* argument lists of the installer runs it made
    stage_log,      \* what its staging loop did, script by script
    scope,          \* "out" | "body": outside or inside a with-statement
    scope_cleanups, \* cleanup() executions of the with-statement last entered
    scope_exit,     \* how that with-statement was left
    ever_staged,    \* stems whose copy was written and recorded, ever
    path_updated,   \* update_python_path() has run over extra_paths
    setups,         \* runs of setup() so far
    script_error_dep, \* issubclass(ScriptError, DependencyError): fixed for the
                    \* life of the instance, drawn when it is constructed
    text,           \* a script's content, given to the parsers of parser.py
    parsed          \* what the parser last applied to text yielded and raised

vars == <<phase, scripts, extra_paths, requirements,
          installed, module_map, dir_exists, dir_files, sys_path, registry,
          installer_calls, last_op, last_arg, last_err, stage_log, scope,
          scope_cleanups, scope_exit, ever_staged, path_updated, setups,
          script_error_dep, text, parsed>>

\* the variables of the parsers' runs
pvars == <<text, parsed>>

mvars == <<phase, scripts, extra_paths, requirements, installed, module_map,
           dir_exists, dir_files, sys_path, registry, last_op, last_arg,
           last_err, installer_calls, stage_log, scope, scope_cleanups,
           scope_exit, ever_staged, path_updated, setups, script_error_dep>>

----------------------------------------------------------------------------
(* Bounds of the model.                                                    *)

\* the constructor is given at most MaxInputs requirements, scripts and
\* extra paths altogether
MaxInputs == 2

\* setup() runs at most MaxSetups times on the instance (every failed run
\* may leave self.requirements longer than it found it)
MaxSetups == 2

----------------------------------------------------------------------------
(* Strings as sequences of characters.                                     *)

Min(S) == CHOOSE x \in S : \A y \in S : x <= y

\* ord(c) for the characters the model uses
Code(c) ==
    CASE c = " " -> 32 [] c = "!" -> 33 [] c = "." -> 46 [] c = "1" -> 49
      [] c = "<" -> 60 [] c = "=" -> 61 [] c = ">" -> 62 [] c = "a" -> 97
      [] c = "b" -> 98 [] c = "c" -> 99 [] c = "m" -> 109 [] c = "p" -> 112
      [] c = "t" -> 116 [] c = "x" -> 120 [] c = "y" -> 121 [] c = "z" -> 122
      [] c = "~" -> 126

\* s < t as Python compares str: by code point, a proper prefix first
StrLess(s, t) ==
    \E k \in 0..Len(s) :
        /\ k <= Len(t)
        /\ \A i \in 1..k : s[i] = t[i]
        /\ \/ k = Len(s) /\ k < Len(t)
           \/ k < Len(s) /\ k < Len(t) /\ Code(s[k + 1]) < Code(t[k + 1])

\* SortedStrs in descending order
RECURSIVE SortedStrsDesc(_)
SortedStrsDesc(S) ==
    IF S = {} THEN <<>>
    ELSE LET m == CHOOSE x \in S : \A y \in S \ {x} : StrLess(y, x)
         IN  <<m>> \o SortedStrsDesc(S \ {m})

\* sorted(S) for a set of strings
RECURSIVE SortedStrs(_)
SortedStrs(S) ==
    IF S = {} THEN <<>>
    ELSE LET m == CHOOSE x \in S : \A y \in S \ {x} : StrLess(x, y)
         IN  <<m>> \o SortedStrs(S \ {m})

\* s.split(sep)[0]
SplitFirst(s, sep) ==
    LET n == Len(s)
        m == Len(sep)
        hits == {i \in 1..(n - m + 1) : SubSeq(s, i, i + m - 1) = sep}
    IN  IF hits = {} THEN s ELSE SubSeq(s, 1, Min(hits) - 1)

\* s.strip()
Strip(s) ==
    LET keep == {i \in 1..Len(s) : s[i] # " "}
    IN  IF keep = {} THEN <<>>
        ELSE SubSeq(s, Min(keep), CHOOSE j \in keep : \A i \in keep : i <= j)

Range(s) == {s[i] : i \in DOMAIN s}

Count(x, s) == Cardinality({i \in DOMAIN s : s[i] = x})

IsPrefix(s, t) == Len(s) <= Len(t) /\ SubSeq(t, 1, Len(s)) = s

----------------------------------------------------------------------------
(* The files, directories and packages of the modelled runs.               *)

Py == <<".", "p", "y">>

\* script paths: a directory and a file name
ScriptPaths ==
    { [dir |-> "a", file |-> <<"t">> \o Py],
      [dir |-> "b", file |-> <<"t">> \o Py],
      [dir |-> "a", file |-> <<"m", ".", "x">> \o Py],
      [dir |-> "gone", file |-> <<"p">> \o Py],
      [dir |-> "locked", file |-> <<"p">> \o Py],
      [dir |-> "meta", file |-> <<"p">> \o Py],
      [dir |-> "syntax", file |-> <<"p">> \o Py],
      [dir |-> "old", file |-> <<"p">> \o Py],
      [dir |-> "full", file |-> <<"p">> \o Py] }

\* what happens to a script on its way through the staging loop:
\*   "ok"         read, parsed, valid, version satisfied, copy written
\*   "missing"    read_text raises FileNotFoundError
\*   "unreadable" read_text raises PermissionError
\*   "badmeta"    parse_script_metadata raises ScriptError
\*   "syntax"     ast.parse raises SyntaxError
\*   "pyver"      check_python_version raises DependencyError
\*   "writefail"  write_text raises OSError
FileKind(path) ==
    CASE path.dir = "gone" -> "missing"
      [] path.dir = "locked" -> "unreadable"
      [] path.dir = "meta" -> "badmeta"
      [] path.dir = "syntax" -> "syntax"
      [] path.dir = "old" -> "pyver"
      [] path.dir = "full" -> "writefail"
      [] OTHER -> "ok"

\* metadata.dependencies of a script
ScriptDeps(path) ==
    CASE path.dir = "a" /\ path.file = <<"t">> \o Py -> << <<"c", ">", "=", "1">> >>
      [] path.dir = "b" -> << <<"b", "<", "1">> >>
      [] path.dir = "a" /\ path.file # <<"t">> \o Py -> << <<"c">> >>
      [] path.dir = "full" -> << <<"b", ">", "1">> >>
      [] OTHER -> <<>>

\* requirement strings a caller passes to the constructor
ExplicitReqs == { <<"a", "=", "=", "1">>, <<"b", "~", "=", "1">> }

\* extra_paths entries
ExtraDirs == {"lib", "./lib", "nodir", "bad"}

\* Path(path).resolve(): "ok" with the absolute path, or an exception
Resolve(path) ==
    CASE path = "lib" -> [ok |-> TRUE, abs |-> "/lib"]
      [] path = "./lib" -> [ok |-> TRUE, abs |-> "/lib"]
      [] path = "nodir" -> [ok |-> TRUE, abs |-> "/nodir"]
      [] OTHER -> [ok |-> FALSE, abs |-> ""]

\* the directories that exist
ExistingDirs == {"/lib", "/site"}

PathExists(path) == Resolve(path).ok /\ Resolve(path).abs \in ExistingDirs

\* Path(path).is_dir()
IsDir(path) == PathExists(path)

\* scan_directory_deps(path): requirements declared by the files below path
DirDeps(path) ==
    IF Resolve(path).ok /\ Resolve(path).abs = "/lib"
    THEN { <<"c", " ", "<", "=", "1">>, <<"a", "!", "=", "1">> }
    ELSE {}

\* sys.path entry of the staging directory
StagingDir == "/tmp/llmling_scripts"

\* dotted import paths a caller verifies
ImportPaths == { <<"t", ".", "x">>, <<"m", ".", "x">> }

----------------------------------------------------------------------------
(* Errors.                                                                 *)

\* cls: the exception class; dep: isinstance(exc, DependencyError);
\* cause: which raise statement; names: the paths the message names;
\* listed: the module names the message lists
NoError == [cls |-> "none", dep |-> FALSE, cause |-> "", names |-> <<>>, listed |-> <<>>]

DepError(cause, names) ==
    [cls |-> "DependencyError", dep |-> TRUE, cause |-> cause, names |-> names,
     listed |-> <<>>]

\* what parse_script_metadata raises on malformed metadata: a ScriptError,
\* which is a DependencyError or not (se_dep)
MetadataError(se_dep) ==
    [cls |-> "ScriptError", dep |-> se_dep, cause |-> "metadata", names |-> <<>>,
     listed |-> <<>>]

\* what check_python_version raises for a constraint the interpreter does
\* not meet: a DependencyError naming the script
VersionError(script_path) == DepError("version", <<script_path>>)

----------------------------------------------------------------------------
(* src/src/depkit/utils.py                                                 *)

\* the name check_requirements looks up:
\* req.split(">=")[0].split("==")[0].split("<")[0].strip()
ReqName(req) ==
    Strip(SplitFirst(SplitFirst(SplitFirst(req, <<">", "=">>), <<"=", "=">>), <<"<">>))

\* check_requirements: the requirements whose name the registry does not
\* find (PackageNotFoundError or any other lookup error), in order
CheckRequirements(reqs, reg) ==
    SelectSeq(reqs, LAMBDA r : ReqName(r) \notin reg)

\* the distribution the installer installs for a requirement: the name in
\* front of the version operator
PkgName(req) ==
    LET ops == {i \in 1..Len(req) : req[i] \in {"=", ">", "<", "~", "!", " "}}
    IN  IF ops = {} THEN req ELSE SubSeq(req, 1, Min(ops) - 1)

\* install_requirements: one installer run over reqs, none for an empty
\* list; installer_ok is the exit status of that run
InstallRequirements(reqs, installer_ok, reg) ==
    IF reqs = <<>>
    THEN [err |-> NoError, registry |-> reg, calls |-> <<>>]
    ELSE IF installer_ok
    THEN [err |-> NoError,
          registry |-> reg \cup {PkgName(reqs[i]) : i \in DOMAIN reqs},
          calls |-> <<reqs>>]
    ELSE [err |-> DepError("install", <<>>), registry |-> reg, calls |-> <<reqs>>]

\* verify_paths: DependencyError at the first path that does not exist, is
\* no directory or cannot be examined
RECURSIVE VerifyPaths(_)
VerifyPaths(paths) ==
    IF paths = <<>> THEN NoError
    ELSE IF ~PathExists(Head(paths)) THEN DepError("verify_paths", <<Head(paths)>>)
    ELSE VerifyPaths(Tail(paths))

----------------------------------------------------------------------------
(* DependencyManager._setup_script_modules                                 *)

Max(S) == CHOOSE x \in S : \A y \in S : y <= x

\* Path(script_path).stem: the file name without its last suffix
Stem(file) ==
    LET dots == {i \in 2..Len(file) : file[i] = "."}
    IN  IF dots = {} THEN file ELSE SubSeq(file, 1, Max(dots) - 1)

\* self._scripts_dir / f"{base_name}.py"
ModuleFile(base_name) == [dir |-> StagingDir, file |-> base_name \o Py]


\* StageScript with the handlers of the loop removed: an unreadable script
\* or a failed write leaves the loop as any other exception does
StageScriptNoCatch(st, script_path, exists, se_dep) ==
    LET kind == FileKind(script_path)
        base_name == Stem(script_path.file)
        skip(why) == [st EXCEPT !.log = Append(@, [path |-> script_path, did |-> why])]
        fatal(e) == [st EXCEPT !.err = e,
                               !.log = Append(@, [path |-> script_path, did |-> "raised"])]
        oserror == [cls |-> "OSError", dep |-> FALSE, cause |-> "io", names |-> <<>>,
                    listed |-> <<>>]
        extended == st.reqs \o ScriptDeps(script_path)
    IN  CASE kind = "missing" -> skip("not_found")
          [] kind = "unreadable" -> fatal(oserror)
          [] kind = "badmeta" ->
                fatal(MetadataError(se_dep))
          [] kind = "syntax" -> fatal(DepError("invalid_script", <<script_path>>))
          [] kind = "pyver" -> fatal(VersionError(script_path))
          [] OTHER ->
                IF base_name \in DOMAIN st.mmap
                THEN [fatal(DepError("collision",
                                     <<script_path, st.mmap[base_name]>>))
                        EXCEPT !.reqs = extended]
                ELSE IF ~exists
                THEN [skip("not_found") EXCEPT !.reqs = extended]
                ELSE IF kind = "writefail"
                THEN [fatal(oserror) EXCEPT !.reqs = extended]
                ELSE [st EXCEPT
                        !.reqs = extended,
                        !.files = @ \cup {base_name \o Py},
                        !.mmap = [n \in DOMAIN st.mmap \cup {base_name} |->
                                    IF n = base_name THEN ModuleFile(base_name)
                                    ELSE st.mmap[n]],
                        !.log = Append(@, [path |-> script_path, did |-> "staged"])]

\* StageScript with the module mapped before its copy is written
StageScriptMapFirst(st, script_path, exists, se_dep) ==
    LET kind == FileKind(script_path)
        base_name == Stem(script_path.file)
        skip(why) == [st EXCEPT !.log = Append(@, [path |-> script_path, did |-> why])]
        fatal(e) == [st EXCEPT !.err = e,
                               !.log = Append(@, [path |-> script_path, did |-> "raised"])]
        extended == st.reqs \o ScriptDeps(script_path)
        mapped == [n \in DOMAIN st.mmap \cup {base_name} |->
                     IF n = base_name THEN ModuleFile(base_name) ELSE st.mmap[n]]
    IN  CASE kind = "missing" -> skip("not_found")
          [] kind = "unreadable" -> skip("failed")
          [] kind = "badmeta" ->
                IF se_dep
                THEN fatal(MetadataError(TRUE))
                ELSE skip("failed")
          [] kind = "syntax" -> fatal(DepError("invalid_script", <<script_path>>))
          [] kind = "pyver" -> fatal(VersionError(script_path))
          [] OTHER ->
                IF base_name \in DOMAIN st.mmap
                THEN [fatal(DepError("collision",
                                     <<script_path, st.mmap[base_name]>>))
                        EXCEPT !.reqs = extended]
                ELSE IF ~exists
                THEN [skip("not_found") EXCEPT !.reqs = extended, !.mmap = mapped]
                ELSE IF kind = "writefail"
                THEN [skip("failed") EXCEPT !.reqs = extended, !.mmap = mapped]
                ELSE [st EXCEPT
                        !.reqs = extended,
                        !.files = @ \cup {base_name \o Py},
                        !.mmap = mapped,
                        !.log = Append(@, [path |-> script_path, did |-> "staged"])]

\* one pass of the loop body over script_path. st: reqs (self.requirements),
\* mmap (self._module_map), files (the staging directory), err (the
\* exception that leaves the loop), log (one entry per script visited).
\* se_dep: ScriptError is a subclass of DependencyError.
StageScript(st, script_path, exists, se_dep) ==
    LET kind == FileKind(script_path)
        base_name == Stem(script_path.file)
        skip(why) == [st EXCEPT !.log = Append(@, [path |-> script_path, did |-> why])]
        fatal(e) == [st EXCEPT !.err = e,
                               !.log = Append(@, [path |-> script_path, did |-> "raised"])]
        extended == st.reqs \o ScriptDeps(script_path)
    IN  CASE kind = "missing" -> skip("not_found")
          [] kind = "unreadable" -> skip("failed")
          [] kind = "badmeta" ->
                IF se_dep
                THEN fatal(MetadataError(TRUE))
                ELSE skip("failed")
          [] kind = "syntax" -> fatal(DepError("invalid_script", <<script_path>>))
          [] kind = "pyver" -> fatal(VersionError(script_path))
          [] OTHER ->
                IF base_name \in DOMAIN st.mmap
                THEN [fatal(DepError("collision",
                                     <<script_path, st.mmap[base_name]>>))
                        EXCEPT !.reqs = extended]
                ELSE IF ~exists
                THEN [skip("not_found") EXCEPT !.reqs = extended]
                ELSE IF kind = "writefail"
                THEN [skip("failed") EXCEPT !.reqs = extended]
                ELSE [st EXCEPT
                        !.reqs = extended,
                        !.files = @ \cup {base_name \o Py},
                        !.mmap = [n \in DOMAIN st.mmap \cup {base_name} |->
                                    IF n = base_name THEN ModuleFile(base_name)
                                    ELSE st.mmap[n]],
                        !.log = Append(@, [path |-> script_path, did |-> "staged"])]

\* the for loop: left at the first exception that is re-raised
RECURSIVE StageFrom(_, _, _, _, _)
StageFrom(i, st, paths, exists, se_dep) ==
    IF i > Len(paths) \/ st.err # NoError THEN st
    ELSE StageFrom(i + 1, StageScript(st, paths[i], exists, se_dep), paths, exists, se_dep)

\* SetupScriptModules with the module map emptied before the loop
SetupScriptModulesFresh(reqs, mmap, files, exists, path, paths, se_dep) ==
    LET st == StageFrom(1, [reqs |-> reqs, mmap |-> <<>>, files |-> files,
                            err |-> NoError, log |-> <<>>], paths, exists, se_dep)
    IN  [reqs |-> st.reqs, mmap |-> st.mmap, files |-> st.files, err |-> st.err,
         log |-> st.log,
         path |-> IF st.err = NoError /\ DOMAIN st.mmap # {}
                  THEN <<StagingDir>> \o path ELSE path]

\* _setup_script_modules: the loop, then the staging directory goes to the
\* front of sys.path if any module is mapped
SetupScriptModules(reqs, mmap, files, exists, path, paths, se_dep) ==
    LET st == StageFrom(1, [reqs |-> reqs, mmap |-> mmap, files |-> files,
                            err |-> NoError, log |-> <<>>], paths, exists, se_dep)
    IN  [reqs |-> st.reqs, mmap |-> st.mmap, files |-> st.files, err |-> st.err,
         log |-> st.log,
         path |-> IF st.err = NoError /\ DOMAIN st.mmap # {}
                  THEN <<StagingDir>> \o path ELSE path]

----------------------------------------------------------------------------
(* DependencyManager: the other methods                                    *)

\* verify_import_path: the segment before the first dot must be a key of
\* the module map; the error lists the sorted keys
VerifyImportPath(mmap, import_path) ==
    LET module_name == SplitFirst(import_path, <<".">>)
    IN  IF module_name \notin DOMAIN mmap
        THEN [DepError("unknown_module", <<>>) EXCEPT !.listed = SortedStrs(DOMAIN mmap)]
        ELSE NoError


\* AddPath without the test for an entry that is already on sys.path
AddPathAgain(path, extra) ==
    LET r == Resolve(extra)
    IN  IF ~r.ok THEN path
        ELSE IF r.abs \notin ExistingDirs THEN path
        ELSE Append(path, r.abs)

\* the loop body of update_python_path for one entry of extra_paths
AddPath(path, extra) ==
    LET r == Resolve(extra)
    IN  IF ~r.ok THEN path                         \* except Exception: warning
        ELSE IF r.abs \notin ExistingDirs THEN path  \* continue
        ELSE IF r.abs \notin Range(path) THEN Append(path, r.abs)
        ELSE path

\* update_python_path
RECURSIVE UpdatePythonPath(_, _)
UpdatePythonPath(path, extras) ==
    IF extras = <<>> THEN path
    ELSE UpdatePythonPath(AddPath(path, Head(extras)), Tail(extras))


\* cleanup without the test for an existing directory: rmtree raises
\* FileNotFoundError on a directory that is gone
CleanupUnguarded(exists, files) ==
    [exists |-> FALSE, files |-> {}, raised |-> ~exists]

\* cleanup: rmtree of the staging directory if it exists
Cleanup(exists, files) ==
    IF exists
    THEN [exists |-> FALSE, files |-> {}, raised |-> FALSE]
    ELSE [exists |-> exists, files |-> files, raised |-> FALSE]


\* the except clause of setup without its cleanup
SetupExceptNoCleanup(res, exc) ==
    [res EXCEPT !.err = IF exc.dep THEN exc ELSE DepError("setup_failed", <<>>)]

\* the except clause of setup: cleanup, then the error as a DependencyError
SetupExcept(res, exc) ==
    LET c == Cleanup(res.exists, res.files)
    IN  [res EXCEPT !.exists = c.exists,
                    !.files = c.files,
                    !.cleanups = @ + 1,
                    !.err = IF exc.dep THEN exc ELSE DepError("setup_failed", <<>>)]

\* the requirements setup collects: self.requirements and those scanned
\* below every extra path that is a directory
Collect(reqs, extras) ==
    Range(reqs) \cup UNION {DirDeps(extras[i]) : i \in {j \in DOMAIN extras : IsDir(extras[j])}}

\* the installation step of setup: nothing is run if nothing is missing
InstallMissing(reqs, installer_ok, reg) ==
    LET missing == CheckRequirements(reqs, reg)
    IN  IF missing # <<>>
        THEN InstallRequirements(missing, installer_ok, reg)
        ELSE [err |-> NoError, registry |-> reg, calls |-> <<>>]

\* setup. cur: the fields and the world before the call. installer_ok: the
\* installer exits with 0; fault: an exception that is no DependencyError
\* is raised while the requirements are collected; se_dep as in StageScript
Setup(cur, installer_ok, fault, se_dep) ==
    LET st == SetupScriptModules(cur.reqs, cur.mmap, cur.files, cur.exists,
                                 cur.path, cur.scripts, se_dep)
        res0 == [reqs |-> st.reqs, inst |-> cur.inst, mmap |-> st.mmap,
                 exists |-> cur.exists, files |-> st.files, path |-> st.path,
                 reg |-> cur.reg, calls |-> <<>>, err |-> NoError, log |-> st.log,
                 cleanups |-> 0, updated |-> FALSE]
        sorted == SortedStrs(Collect(st.reqs, cur.extras))
        res1 == [res0 EXCEPT !.reqs = sorted, !.inst = @ \cup Range(sorted)]
        ins == InstallMissing(sorted, installer_ok, cur.reg)
        res2 == [res1 EXCEPT !.reg = ins.registry, !.calls = ins.calls]
        res3 == [res2 EXCEPT !.path = UpdatePythonPath(@, cur.extras),
                             !.updated = TRUE]
        verr == IF cur.extras # <<>> THEN VerifyPaths(cur.extras) ELSE NoError
    IN  IF st.err # NoError THEN SetupExcept(res0, st.err)
        ELSE IF fault
        THEN SetupExcept(res0, [cls |-> "Exception", dep |-> FALSE, cause |-> "fault",
                                names |-> <<>>, listed |-> <<>>])
        ELSE IF ins.err # NoError THEN SetupExcept(res2, ins.err)
        ELSE IF verr # NoError THEN SetupExcept(res3, verr)
        ELSE res3

----------------------------------------------------------------------------
(* src/src/depkit/parser.py: the legacy format                             *)

\* at most MaxLines lines in a text of the legacy format
MaxLines == 3

NL == "\n"

\* str.splitlines()
RECURSIVE SplitLines(_)
SplitLines(t) ==
    IF t = <<>> THEN <<>>
    ELSE LET nl == {i \in 1..Len(t) : t[i] = NL}
         IN  IF nl = {} THEN <<t>>
             ELSE <<SubSeq(t, 1, Min(nl) - 1)>>
                      \o SplitLines(SubSeq(t, Min(nl) + 1, Len(t)))

\* "\n".join(lines)
RECURSIVE JoinLines(_)
JoinLines(lines) ==
    IF lines = <<>> THEN <<>>
    ELSE IF Len(lines) = 1 THEN lines[1]
    ELSE lines[1] \o <<NL>> \o JoinLines(Tail(lines))

\* s.startswith(prefix)
StartsWith(s, prefix) == Len(prefix) <= Len(s) /\ SubSeq(s, 1, Len(prefix)) = prefix

\* s.lstrip("#")
LStripHash(s) ==
    LET keep == {i \in 1..Len(s) : s[i] # "#"}
    IN  IF keep = {} THEN <<>> ELSE SubSeq(s, Min(keep), Len(s))

\* "# Dependencies:"
DepsHeader == <<"#", " ", "D", "e", "p", "e", "n", "d", "e", "n", "c", "i", "e", "s", ":">>

\* parse_informal_deps with the loop left only at the end of the text
RECURSIVE InformalFromNoBreak(_, _, _, _)
InformalFromNoBreak(lines, i, in_deps, out) ==
    IF i > Len(lines) THEN out
    ELSE LET stripped == Strip(lines[i])
         IN  IF stripped = <<>> \/ StartsWith(stripped, <<"#">>)
             THEN IF stripped = DepsHeader
                  THEN InformalFromNoBreak(lines, i + 1, TRUE, out)
                  ELSE IF in_deps /\ StartsWith(stripped, <<"#">>)
                  THEN LET req == Strip(LStripHash(stripped))
                       IN  InformalFromNoBreak(lines, i + 1, in_deps,
                               IF req # <<>> THEN Append(out, req) ELSE out)
                  ELSE InformalFromNoBreak(lines, i + 1, FALSE, out)
             ELSE InformalFromNoBreak(lines, i + 1, FALSE, out)

\* the loop of parse_informal_deps from line i on: in_deps as in the code,
\* out the strings yielded so far
RECURSIVE InformalFrom(_, _, _, _)
InformalFrom(lines, i, in_deps, out) ==
    IF i > Len(lines) THEN out
    ELSE LET stripped == Strip(lines[i])
         IN  IF stripped = <<>> \/ StartsWith(stripped, <<"#">>)
             THEN IF stripped = DepsHeader
                  THEN InformalFrom(lines, i + 1, TRUE, out)           \* continue
                  ELSE IF in_deps /\ StartsWith(stripped, <<"#">>)
                  THEN LET req == Strip(LStripHash(stripped))
                       IN  InformalFrom(lines, i + 1, in_deps,
                               IF req # <<>> THEN Append(out, req) ELSE out)
                  ELSE InformalFrom(lines, i + 1, FALSE, out)
             ELSE out                                                  \* break

\* parse_informal_deps, fully consumed
ParseInformalDeps(content) == InformalFrom(SplitLines(content), 1, FALSE, <<>>)

\* lines of texts in the legacy format
InformalLines ==
    { DepsHeader, <<"#", " ", "a">>, <<" ", "#", "b", " ">>, <<"#">>, <<>>, <<"x">> }

\* texts in the legacy format
InformalTexts == {JoinLines(ls) : ls \in UNION {[1..k -> InformalLines] : k \in 0..MaxLines}}

----------------------------------------------------------------------------
(* src/src/depkit/parser.py: PEP 723 metadata blocks                       *)

\* at most MaxBody content lines in a generated metadata block
MaxBody == 2

\* [a-zA-Z0-9-]
TypeChars ==
    { "a", "b", "c", "d", "e", "f", "g", "h", "i", "j", "k", "l", "m", "n", "o", "p", "q", "r", "s", "t", "u", "v", "w", "x", "y", "z", "A", "B", "C", "D", "E", "F", "G", "H", "I", "J", "K", "L", "M", "N", "O", "P", "Q", "R", "S", "T", "U", "V", "W", "X", "Y", "Z", "0", "1", "2", "3", "4", "5", "6", "7", "8", "9", "-" }

\* "# /// "
StartPrefix == <<"#", " ", "/", "/", "/", " ">>

\* "# ///"
EndLine == <<"#", " ", "/", "/", "/">>

\* ^# /// (?P<type>[a-zA-Z0-9-]+)$
IsStartLine(line) ==
    /\ Len(line) > Len(StartPrefix)
    /\ StartsWith(line, StartPrefix)
    /\ \A i \in (Len(StartPrefix) + 1)..Len(line) : line[i] \in TypeChars

\* m.group("type")
BlockType(line) == SubSeq(line, Len(StartPrefix) + 1, Len(line))

\* ^#(| .*)$
IsContentLine(line) ==
    \/ line = <<"#">>
    \/ Len(line) >= 2 /\ line[1] = "#" /\ line[2] = " "

\* the lines j at which a match of SCRIPT_REGEX starting at line i can end
BlockEnds(lines, i) ==
    {j \in (i + 2)..Len(lines) :
        /\ lines[j] = EndLine
        /\ \A m \in (i + 1)..(j - 1) : IsContentLine(lines[m])}

\* re.finditer(SCRIPT_REGEX, content) from line k on: the leftmost start,
\* the content group taken as long as it can be, then on after the match
RECURSIVE FindBlocks(_, _)
FindBlocks(lines, k) ==
    LET starts == {i \in k..Len(lines) :
                      IsStartLine(lines[i]) /\ BlockEnds(lines, i) # {}}
    IN  IF starts = {} THEN <<>>
        ELSE LET i == Min(starts)
                 j == Max(BlockEnds(lines, i))
             IN  <<[type |-> BlockType(lines[i]),
                    content |-> SubSeq(lines, i + 1, j - 1)]>>
                     \o FindBlocks(lines, j + 1)

\* the matches whose type group is "script"
ScriptMatches(content) ==
    SelectSeq(FindBlocks(SplitLines(content), 1),
              LAMBDA m : m.type = <<"s", "c", "r", "i", "p", "t">>)

\* extract_toml, line by line
ExtractToml(match) ==
    [i \in DOMAIN match.content |->
        LET line == match.content[i]
        IN  IF StartsWith(line, <<"#", " ">>)
            THEN SubSeq(line, 3, Len(line))
            ELSE SubSeq(line, 2, Len(line))]

\* the TOML lines tomllib.loads accepts here, with the key each one sets and
\* the Python value it is loaded as
TomlEntries ==
    { [line |-> <<"d", "e", "p", "e", "n", "d", "e", "n", "c", "i", "e", "s", " ", "=", " ", "[", "'", "a", "'", "]">>,
        key |-> "dependencies", type |-> "list", truthy |-> TRUE, items |-> <<<<"a">>>>],
      [line |-> <<"d", "e", "p", "e", "n", "d", "e", "n", "c", "i", "e", "s", " ", "=", " ", "[", "]">>,
        key |-> "dependencies", type |-> "list", truthy |-> FALSE, items |-> <<>>],
      [line |-> <<"d", "e", "p", "e", "n", "d", "e", "n", "c", "i", "e", "s", " ", "=", " ", "'", "a", "'">>,
        key |-> "dependencies", type |-> "str", truthy |-> TRUE, items |-> <<>>],
      [line |-> <<"d", "e", "p", "e", "n", "d", "e", "n", "c", "i", "e", "s", " ", "=", " ", "'", "'">>,
        key |-> "dependencies", type |-> "str", truthy |-> FALSE, items |-> <<>>],
      [line |-> <<"d", "e", "p", "e", "n", "d", "e", "n", "c", "i", "e", "s", " ", "=", " ", "0">>,
        key |-> "dependencies", type |-> "int", truthy |-> FALSE, items |-> <<>>],
      [line |-> <<"d", "e", "p", "e", "n", "d", "e", "n", "c", "i", "e", "s", " ", "=", " ", "f", "a", "l", "s", "e">>,
        key |-> "dependencies", type |-> "bool", truthy |-> FALSE, items |-> <<>>],
      [line |-> <<"d", "e", "p", "e", "n", "d", "e", "n", "c", "i", "e", "s", " ", "=", " ", "{", "}">>,
        key |-> "dependencies", type |-> "table", truthy |-> FALSE, items |-> <<>>],
      [line |-> <<"r", "e", "q", "u", "i", "r", "e", "s", "-", "p", "y", "t", "h", "o", "n", " ", "=", " ", "'", ">", "=", "3", "'">>,
        key |-> "requires-python", type |-> "str", truthy |-> TRUE, items |-> <<>>],
      [line |-> <<"r", "e", "q", "u", "i", "r", "e", "s", "-", "p", "y", "t", "h", "o", "n", " ", "=", " ", "3">>,
        key |-> "requires-python", type |-> "int", truthy |-> TRUE, items |-> <<>>],
      [line |-> <<"r", "e", "q", "u", "i", "r", "e", "s", "-", "p", "y", "t", "h", "o", "n", " ", "=", " ", "0">>,
        key |-> "requires-python", type |-> "int", truthy |-> FALSE, items |-> <<>>],
      [line |-> <<"r", "e", "q", "u", "i", "r", "e", "s", "-", "p", "y", "t", "h", "o", "n", " ", "=", " ", "f", "a", "l", "s", "e">>,
        key |-> "requires-python", type |-> "bool", truthy |-> FALSE, items |-> <<>>] }

TomlEntry(line) == CHOOSE e \in TomlEntries : e.line = line

\* tomllib.loads: a blank line sets nothing, any other line than those of
\* TomlEntries and a key set twice are a TOMLDecodeError
TomlLoads(doc) ==
    LET set  == {i \in DOMAIN doc : doc[i] # <<>>}
        good == \A i \in set : \E e \in TomlEntries : e.line = doc[i]
        once == \A i, j \in set :
                    i # j => TomlEntry(doc[i]).key # TomlEntry(doc[j]).key
    IN  IF good /\ once
        THEN [ok |-> TRUE, values |-> {TomlEntry(doc[i]) : i \in set}]
        ELSE [ok |-> FALSE, values |-> {}]

\* metadata.get(key), None as a falsy value of type "none"
None == [key |-> "", type |-> "none", truthy |-> FALSE, items |-> <<>>]

Get(metadata, key) ==
    IF \E v \in metadata.values : v.key = key
    THEN LET v == CHOOSE v \in metadata.values : v.key = key
         IN  [key |-> v.key, type |-> v.type, truthy |-> v.truthy, items |-> v.items]
    ELSE None

\* parse_pep723_deps, fully consumed: the strings yielded and the exception
\* the generator ends with
ParsePep723Deps(content) ==
    LET matches == ScriptMatches(content)
    IN  IF Len(matches) > 1 THEN [deps |-> <<>>, err |-> "ScriptError"]
        ELSE IF matches = <<>>
        THEN [deps |-> ParseInformalDeps(content), err |-> "none"]
        ELSE LET metadata   == TomlLoads(ExtractToml(matches[1]))
                 deps       == Get(metadata, "dependencies")
                 python_req == Get(metadata, "requires-python")
             IN  IF ~metadata.ok THEN [deps |-> <<>>, err |-> "ScriptError"]
                 ELSE IF deps.truthy /\ deps.type # "list"
                 THEN [deps |-> <<>>, err |-> "ScriptError"]
                 ELSE [deps |-> IF deps.truthy THEN deps.items ELSE <<>>,
                       err  |-> IF python_req.truthy /\ python_req.type # "str"
                                THEN "ScriptError" ELSE "none"]

\* content lines of generated metadata blocks
BodyLines == {<<"#">>} \cup {<<"#", " ">> \o e.line : e \in TomlEntries}

Bodies(n) == UNION {[1..k -> BodyLines] : k \in 0..n}

ScriptStart == StartPrefix \o <<"s", "c", "r", "i", "p", "t">>

ToolStart == StartPrefix \o <<"t", "o", "o", "l">>

\* texts with one block, of type script or of another type, alone or
\* followed by a legacy block
OneBlockTexts ==
    {JoinLines(<<start>> \o body \o <<EndLine>> \o rest) :
        start \in {ScriptStart, ToolStart},
        body \in Bodies(MaxBody),
        rest \in {<<>>, <<DepsHeader, <<"#", " ", "a">>>>}}

\* texts with two script blocks, one right after the other or with a code
\* line between them
TwoBlockTexts ==
    {JoinLines(<<ScriptStart, b1, EndLine>> \o sep \o <<ScriptStart, b2, EndLine>>) :
        b1 \in BodyLines, b2 \in BodyLines, sep \in {<<>>, <<<<"x">>>>}}

ParserTexts == InformalTexts \cup OneBlockTexts \cup TwoBlockTexts

----------------------------------------------------------------------------
(* The instance and its callers.                                           *)

BSeq(S, n) == UNION {[1..k -> S] : k \in 0..n}

\* the argument lists of the constructor
CtorArgs ==
    {a \in [reqs : BSeq(ExplicitReqs, MaxInputs),
            scripts : BSeq(ScriptPaths, MaxInputs),
            extras : BSeq(ExtraDirs, MaxInputs)] :
        Len(a.reqs) + Len(a.scripts) + Len(a.extras) <= MaxInputs}

\* no parser has run
NotParsed == [by |-> "none", deps |-> <<>>, err |-> "none"]

\* no DependencyManager constructed yet
Unconstructed ==
    /\ phase = "new"
    /\ scripts = <<>>
    /\ extra_paths = <<>>
    /\ requirements = <<>>
    /\ installed = {}
    /\ module_map = <<>>
    /\ dir_exists = FALSE
    /\ dir_files = {}
    /\ sys_path = <<"/site">>
    /\ registry = {<<"a">>}
    /\ last_op = "none"
    /\ last_arg = <<>>
    /\ last_err = NoError
    /\ installer_calls = <<>>
    /\ stage_log = <<>>
    /\ scope = "out"
    /\ scope_cleanups = 0
    /\ scope_exit = "none"
    /\ ever_staged = {}
    /\ path_updated = FALSE
    /\ setups = 0
    /\ script_error_dep = TRUE

Init ==
    /\ Unconstructed
    /\ text = <<>>
    /\ parsed = NotParsed

\* the fields and the world as Setup reads them
Current ==
    [reqs |-> requirements, inst |-> installed, mmap |-> module_map,
     exists |-> dir_exists, files |-> dir_files, path |-> sys_path, reg |-> registry,
     scripts |-> scripts, extras |-> extra_paths]

StagedIn(log) ==
    {Stem(log[i].path.file) : i \in {j \in DOMAIN log : log[j].did = "staged"}}

\* the assignments a run of setup leaves behind
SetupEffect(res) ==
    /\ requirements' = res.reqs
    /\ installed' = res.inst
    /\ module_map' = res.mmap
    /\ dir_exists' = res.exists
    /\ dir_files' = res.files
    /\ sys_path' = res.path
    /\ registry' = res.reg
    /\ installer_calls' = res.calls
    /\ last_err' = res.err
    /\ stage_log' = res.log
    /\ ever_staged' = ever_staged \cup StagedIn(res.log)
    /\ path_updated' = (path_updated \/ res.updated)
    /\ last_arg' = <<>>
    /\ setups' = setups + 1

\* an operation that runs no installer and no staging loop
NoSetupOutputs == installer_calls' = <<>> /\ stage_log' = <<>>

\* what a run of setup meets: the installer's exit status, an unexpected
\* exception (after which the installer is not reached), and whether
\* ScriptError derives from DependencyError
SetupInputs ==
    {w \in [installer_ok : BOOLEAN, fault : BOOLEAN, se_dep : {script_error_dep}] :
        w.fault => w.installer_ok}

\* a caller outside any with-statement
Direct ==
    /\ phase = "alive"
    /\ scope = "out"
    /\ scope_cleanups' = 0
    /\ scope_exit' = "none"
    /\ UNCHANGED scope

\* DependencyManager(...): __init__. venv: what in_virtualenv() answers
Construct ==
    /\ phase = "new"
    /\ \E a \in CtorArgs, force \in BOOLEAN, venv \in BOOLEAN :
          /\ requirements' = a.reqs
          /\ scripts' = a.scripts
          /\ extra_paths' = a.extras
          /\ last_arg' = [force_install |-> force, in_virtualenv |-> venv]
          /\ dir_exists' = TRUE                      \* tempfile.mkdtemp
          /\ script_error_dep' \in
                IF \E i \in DOMAIN a.scripts : FileKind(a.scripts[i]) = "badmeta"
                THEN BOOLEAN ELSE {TRUE}   \* shows only on malformed metadata
          /\ IF ~venv /\ ~force
             THEN /\ phase' = "ctor_failed"
                  /\ last_err' = DepError("no_venv", <<>>)
             ELSE /\ phase' = "alive"
                  /\ last_err' = NoError
    /\ last_op' = "construct"
    /\ UNCHANGED <<installed, module_map, dir_files, sys_path, registry,
                   installer_calls, stage_log, scope, scope_cleanups,
                   scope_exit, ever_staged, path_updated, setups>>
    /\ UNCHANGED pvars

\* m.setup() or m.install()
CallSetup ==
    /\ Direct
    /\ setups < MaxSetups
    /\ \E w \in SetupInputs :
          SetupEffect(Setup(Current, w.installer_ok, w.fault, w.se_dep))
    /\ last_op' = "setup"
    /\ UNCHANGED <<phase, scripts, extra_paths>>
    /\ UNCHANGED <<script_error_dep, text, parsed>>

\* m.cleanup() or m.uninstall()
CallCleanup ==
    /\ Direct
    /\ LET c == Cleanup(dir_exists, dir_files)
       IN  /\ dir_exists' = c.exists
           /\ dir_files' = c.files
           /\ last_err' = IF c.raised
                          THEN [cls |-> "FileNotFoundError", dep |-> FALSE,
                                cause |-> "rmtree", names |-> <<>>, listed |-> <<>>]
                          ELSE NoError
    /\ last_op' = "cleanup"
    /\ last_arg' = <<>>
    /\ NoSetupOutputs
    /\ UNCHANGED <<phase, scripts, extra_paths, requirements,
                   installed, module_map, sys_path, registry, ever_staged,
                   path_updated, setups>>
    /\ UNCHANGED <<script_error_dep, text, parsed>>

\* m.verify_import_path(p), in or outside a with-statement
CallVerifyImportPath ==
    /\ phase = "alive"
    /\ \E p \in ImportPaths :
          /\ last_arg' = p
          /\ last_err' = VerifyImportPath(module_map, p)
    /\ last_op' = "verify_import_path"
    /\ NoSetupOutputs
    /\ UNCHANGED <<phase, scripts, extra_paths, requirements,
                   installed, module_map, dir_exists, dir_files, sys_path, registry,
                   scope, scope_cleanups, scope_exit, ever_staged, path_updated,
                   setups>>
    /\ UNCHANGED <<script_error_dep, text, parsed>>

\* m.update_python_path()
CallUpdatePythonPath ==
    /\ Direct
    /\ sys_path' = UpdatePythonPath(sys_path, extra_paths)
    /\ path_updated' = TRUE
    /\ last_op' = "update_python_path"
    /\ last_arg' = <<>>
    /\ last_err' = NoError
    /\ NoSetupOutputs
    /\ UNCHANGED <<phase, scripts, extra_paths, requirements,
                   installed, module_map, dir_exists, dir_files, registry,
                   ever_staged, setups>>
    /\ UNCHANGED <<script_error_dep, text, parsed>>

\* with m: / async with m: -- __enter__ and __aenter__ run setup; if it
\* raises, the with-statement is left without __exit__
Enter ==
    /\ phase = "alive"
    /\ scope = "out"
    /\ setups < MaxSetups
    /\ \E w \in SetupInputs :
          LET res == Setup(Current, w.installer_ok, w.fault, w.se_dep)
          IN  /\ SetupEffect(res)
              /\ scope_cleanups' = res.cleanups
              /\ IF res.err # NoError
                 THEN scope' = "out" /\ scope_exit' = "setup_failed"
                 ELSE scope' = "body" /\ scope_exit' = "none"
    /\ last_op' = "enter"
    /\ UNCHANGED <<phase, scripts, extra_paths>>
    /\ UNCHANGED <<script_error_dep, text, parsed>>


\* Exit with a cleanup that runs only if the body raised nothing
ExitCleansOnSuccess ==
    /\ phase = "alive"
    /\ scope = "body"
    /\ \E body_raised \in BOOLEAN :
          /\ scope_exit' = IF body_raised THEN "error" ELSE "normal"
          /\ LET c == IF body_raised
                      THEN [exists |-> dir_exists, files |-> dir_files]
                      ELSE Cleanup(dir_exists, dir_files)
             IN  /\ dir_exists' = c.exists
                 /\ dir_files' = c.files
          /\ scope_cleanups' = scope_cleanups + (IF body_raised THEN 0 ELSE 1)
    /\ scope' = "out"
    /\ last_op' = "exit"
    /\ last_arg' = <<>>
    /\ last_err' = NoError
    /\ NoSetupOutputs
    /\ UNCHANGED <<phase, scripts, extra_paths, requirements,
                   installed, module_map, sys_path, registry, ever_staged,
                   path_updated, setups>>
    /\ UNCHANGED <<script_error_dep, text, parsed>>

\* the end of the with-statement's body, reached normally or by an
\* exception of the body: __exit__ and __aexit__ run cleanup
Exit ==
    /\ phase = "alive"
    /\ scope = "body"
    /\ \E body_raised \in BOOLEAN :
          scope_exit' = IF body_raised THEN "error" ELSE "normal"
    /\ LET c == Cleanup(dir_exists, dir_files)
       IN  /\ dir_exists' = c.exists
           /\ dir_files' = c.files
    /\ scope_cleanups' = scope_cleanups + 1
    /\ scope' = "out"
    /\ last_op' = "exit"
    /\ last_arg' = <<>>
    /\ last_err' = NoError
    /\ NoSetupOutputs
    /\ UNCHANGED <<phase, scripts, extra_paths, requirements,
                   installed, module_map, sys_path, registry, ever_staged,
                   path_updated, setups>>
    /\ UNCHANGED <<script_error_dep, text, parsed>>

Next ==
    \/ Construct
    \/ CallSetup
    \/ CallCleanup
    \/ CallVerifyImportPath
    \/ CallUpdatePythonPath
    \/ Enter
    \/ Exit

Spec == Init /\ [][Next]_vars

----------------------------------------------------------------------------
(* The parsers applied to script texts.                                    *)

InitParse ==
    /\ Unconstructed
    /\ text \in ParserTexts
    /\ parsed = NotParsed

\* list(parse_informal_deps(text))
CallParseInformalDeps ==
    /\ parsed' = [by |-> "parse_informal_deps",
                  deps |-> ParseInformalDeps(text), err |-> "none"]
    /\ UNCHANGED <<mvars, text>>

\* list(parse_pep723_deps(text))
CallParsePep723Deps ==
    /\ LET r == ParsePep723Deps(text)
       IN  parsed' = [by |-> "parse_pep723_deps", deps |-> r.deps, err |-> r.err]
    /\ UNCHANGED <<mvars, text>>

NextParse ==
    \/ CallParseInformalDeps
    \/ CallParsePep723Deps

SpecParse == InitParse /\ [][NextParse]_vars

----------------------------------------------------------------------------
(* The claims.                                                             *)

\* the operation last called ran setup
RanSetup == last_op \in {"setup", "enter"}

\* the staging loop of the last setup was left by an exception at its
\* last entry
LoopRaised ==
    stage_log # <<>> /\ stage_log[Len(stage_log)].did = "raised"

NoDuplicates(s) == \A i, j \in DOMAIN s : s[i] = s[j] => i = j

\* C1: when setup() raises, whatever the cause, the staging directory is gone
\* from the disk and the error the caller receives is a DependencyError.
C1_FailedSetupRemovesStagingDir ==
    (RanSetup /\ last_err # NoError) =>
        /\ ~dir_exists
        /\ dir_files = {}
        /\ last_err.dep
        /\ last_err.cls \in {"DependencyError", "ScriptError"}

\* C1 witness: a setup that had staged a script failed in the installer.
C1_Witness ==
    /\ RanSetup
    /\ last_err.cause = "install"
    /\ \E i \in DOMAIN stage_log : stage_log[i].did = "staged"
    /\ ~dir_exists

\* C2: when control has left a with-statement (setup failed on entry, the
\* body ended normally, or the body raised), cleanup() has run exactly once
\* in it; inside the body it has not run.
C2_ScopeCleansUpOnce ==
    /\ scope_exit \in {"setup_failed", "normal", "error"} => scope_cleanups = 1
    /\ scope = "body" => scope_cleanups = 0

\* C2 witness: the body of a with-statement raised and the statement was left.
C2_Witness ==
    /\ last_op = "exit"
    /\ scope_exit = "error"
    /\ scope_cleanups = 1
    /\ ~dir_exists

\* C3: a construction that fails for want of a virtual environment has
\* created no staging directory.
C3_FailedConstructionLeavesNoDir ==
    (phase = "ctor_failed" /\ last_err.cause = "no_venv") => ~dir_exists

\* C4: in the first setup pass, a script whose stem equals that of an
\* earlier, staged script with another path makes setup fail with an error
\* that names the paths of both scripts, and the earlier script's entry in
\* the module map stays as it was.
C4_CollisionNamesBothScripts ==
    (RanSetup /\ setups = 1 /\ last_err.cause = "collision") =>
        LET later == stage_log[Len(stage_log)].path
            name == Stem(later.file)
        IN  \A i \in DOMAIN stage_log :
                (/\ stage_log[i].did = "staged"
                 /\ Stem(stage_log[i].path.file) = name
                 /\ stage_log[i].path # later) =>
                    /\ {stage_log[i].path, later} \subseteq Range(last_err.names)
                    /\ module_map[name] = ModuleFile(name)

\* C5 as stated: the staging loop is left by an exception only for a
\* module-name collision or a version-constraint violation (malformed
\* metadata aside, whose exception class is defined outside the sources
\* modelled here).
C5_OnlyCollisionAndVersionAbort ==
    (RanSetup /\ LoopRaised /\ last_err.cause # "metadata") =>
        last_err.cause \in {"collision", "version"}

\* C5, amended: the staging loop is left by an exception exactly at a script
\* that collides, violates its version constraint, is syntactically invalid,
\* or has malformed metadata while ScriptError is a DependencyError; a
\* missing or unreadable script and a failed write are skipped, and every
\* script up to the one that raises is visited in order.
C5_FatalAndSkippedScripts ==
    RanSetup =>
        /\ Len(stage_log) <= Len(scripts)
        /\ \A i \in DOMAIN stage_log :
              LET e == stage_log[i]
                  kind == FileKind(e.path)
              IN  /\ e.path = scripts[i]
                  /\ e.did = "raised" => i = Len(stage_log)
                  /\ kind \in {"missing", "unreadable", "writefail"} =>
                        e.did \in {"not_found", "failed"}
                  /\ kind \in {"syntax", "pyver"} => e.did = "raised"
                  /\ kind = "badmeta" => e.did \in {"raised", "failed"}
        /\ LoopRaised =>
              /\ last_err.cause \in {"collision", "version", "invalid_script", "metadata"}
              /\ last_err.dep
        /\ ~LoopRaised => Len(stage_log) = Len(scripts)

\* C5 witness: a missing script was skipped and the script after it staged.
C5_Witness ==
    /\ RanSetup
    /\ Len(stage_log) = 2
    /\ stage_log[1].did = "not_found"
    /\ FileKind(stage_log[1].path) = "missing"
    /\ stage_log[2].did = "staged"


\* the last setup got as far as its installation step
ReachedInstall == RanSetup /\ last_err.cause \in {"", "install", "verify_paths"}

\* C6: a setup() that reaches its installation step runs the installer at
\* most once, on exactly the collected requirements whose package the
\* environment lacked before the call, sorted, and not at all if there is
\* no such requirement.
C6_InstallerGetsExactlyTheMissing ==
    [][ReachedInstall' =>
          LET lacking == {r \in Range(requirements') : PkgName(r) \notin registry}
          IN  installer_calls' =
                 IF lacking = {} THEN <<>> ELSE <<SortedStrs(lacking)>>]_vars

\* C7: after a setup() whose installer run succeeded, check_requirements
\* over the same requirements returns the empty list, and what the
\* installer was given is drawn from those requirements.
C7_NothingMissingAfterInstall ==
    (RanSetup /\ installer_calls # <<>> /\ last_err.cause \in {"", "verify_paths"}) =>
        /\ Range(installer_calls[1]) \subseteq Range(requirements)
        /\ CheckRequirements(requirements, registry) = <<>>

\* C8: verify_import_path(p) returns iff the segment of p before its first
\* dot is the stem of a script whose copy was written and mapped on this
\* instance; otherwise it raises a DependencyError that lists the module
\* names available.
C8_VerifyIffStaged ==
    last_op = "verify_import_path" =>
        LET module_name == SplitFirst(last_arg, <<".">>)
        IN  /\ (last_err = NoError) <=> (module_name \in ever_staged)
            /\ last_err # NoError =>
                  /\ last_err.cls = "DependencyError"
                  /\ last_err.listed = SortedStrs(ever_staged)

\* C8 witness: a path was verified after setup() and cleanup() had run.
C8_Witness ==
    /\ last_op = "verify_import_path"
    /\ last_err = NoError
    /\ setups >= 1
    /\ ~dir_exists

\* an extra path that resolves to an existing directory
Publishable(extra) == Resolve(extra).ok /\ Resolve(extra).abs \in ExistingDirs

\* C9: update_python_path() over a sys.path without duplicates only appends:
\* afterwards every extra path that exists occurs once, resolved; what was
\* added is the resolved form of such a path; and nothing is raised,
\* whatever the other extra paths are.
C9_ExtraPathsAppendedOnce ==
    [][(last_op' = "update_python_path" /\ NoDuplicates(sys_path)) =>
          /\ IsPrefix(sys_path, sys_path')
          /\ NoDuplicates(sys_path')
          /\ \A i \in DOMAIN extra_paths :
                Publishable(extra_paths[i]) =>
                    Count(Resolve(extra_paths[i]).abs, sys_path') = 1
          /\ Range(sys_path') \ Range(sys_path) \subseteq
                {Resolve(extra_paths[i]).abs :
                    i \in {j \in DOMAIN extra_paths : Publishable(extra_paths[j])}}
          /\ last_err' = NoError]_vars

\* C9 witness: the first extra path could not be resolved and the second,
\* an existing directory, is at the end of sys.path.
C9_Witness ==
    /\ last_op = "update_python_path"
    /\ extra_paths = <<"bad", "lib">>
    /\ sys_path[Len(sys_path)] = "/lib"

\* C10: cleanup() never raises and leaves no staging directory, and a
\* cleanup() right after a cleanup() changes nothing.
C10_CleanupIdempotent ==
    [][last_op' = "cleanup" =>
          /\ last_err' = NoError
          /\ ~dir_exists'
          /\ dir_files' = {}
          /\ last_op = "cleanup" => vars' = vars]_vars

\* C10 witness: cleanup() ran on an instance whose setup() had staged a
\* script and succeeded.
C10_Witness ==
    /\ last_op = "cleanup"
    /\ ever_staged # {}
    /\ module_map # <<>>
    /\ setups = 1
    /\ ~dir_exists


\* C13 as stated: once setup() has collected the requirements,
\* self.requirements is sorted and no two of its entries have the same
\* name, the name being what check_requirements strips a specifier to.
C13_RequirementsUniqueByName ==
    ReachedInstall =>
        \A i, j \in DOMAIN requirements :
            i < j => /\ StrLess(requirements[i], requirements[j])
                     /\ ReqName(requirements[i]) # ReqName(requirements[j])

\* C13, amended: once setup() has collected the requirements,
\* self.requirements is sorted and holds no string twice (two specifiers of
\* one package stay both), and every entry is in the installed set.
C13_RequirementsSortedAndDistinct ==
    ReachedInstall =>
        /\ \A i, j \in DOMAIN requirements :
              i < j => StrLess(requirements[i], requirements[j])
        /\ Range(requirements) \subseteq installed

\* C13 witness: two specifiers of one package, from different sources, are
\* both in the collected requirements.
C13_Witness ==
    /\ ReachedInstall
    /\ \E i, j \in DOMAIN requirements :
          i < j /\ ReqName(requirements[i]) = ReqName(requirements[j])

\* C14: no step removes or changes an entry of the module map, and a
\* setup() on an instance that has staged a script raises the
\* duplicate-module-name DependencyError and leaves no staging directory.
C14_SecondSetupCollides ==
    [][/\ \A n \in DOMAIN module_map :
             n \in DOMAIN module_map' /\ module_map'[n] = module_map[n]
       /\ (setups' = setups + 1 /\ ever_staged # {}) =>
             /\ last_err'.cause = "collision"
             /\ last_err'.cls = "DependencyError"
             /\ ~dir_exists']_vars

\* C14 witness: a second setup(), after a cleanup(), hit the collision.
C14_Witness ==
    /\ RanSetup
    /\ setups = 2
    /\ last_err.cause = "collision"
    /\ ever_staged # {}
    /\ ~dir_exists

----------------------------------------------------------------------------
(* Claims about the parsers (checked under SpecParse).                     *)

Lines == SplitLines(text)

IsBlank(line) == Strip(line) = <<>>

IsComment(line) == StartsWith(Strip(line), <<"#">>)

\* the trimmed content of a comment line
Content(line) == Strip(LStripHash(Strip(line)))

RECURSIVE ContentsOf(_, _)
ContentsOf(lines, idx) ==
    IF idx = {} THEN <<>>
    ELSE <<Content(lines[Min(idx)])>> \o ContentsOf(lines, idx \ {Min(idx)})

Headers == {i \in DOMAIN Lines : Lines[i] = DepsHeader}

\* the first blank or non-comment line after line h, or the end of the text
BlockEnd(h) ==
    Min({i \in (h + 1)..Len(Lines) : IsBlank(Lines[i]) \/ ~IsComment(Lines[i])}
            \cup {Len(Lines) + 1})

\* the first line that is neither blank nor a comment, or the end of the text
ScanEnd ==
    Min({i \in DOMAIN Lines : ~IsBlank(Lines[i]) /\ ~IsComment(Lines[i])}
            \cup {Len(Lines) + 1})

\* the lines parse_informal_deps yields from
Yielding ==
    {i \in 1..(ScanEnd - 1) :
        /\ IsComment(Lines[i])
        /\ Lines[i] # DepsHeader
        /\ Content(Lines[i]) # <<>>
        /\ \E h \in Headers :
              h < i /\ \A k \in (h + 1)..(i - 1) : ~IsBlank(Lines[k])}

InformalApplied ==
    /\ ScriptMatches(text) = <<>>
    /\ parsed.by \in {"parse_informal_deps", "parse_pep723_deps"}

\* C11, as stated: for a text without a script block, parse_informal_deps
\* yields the trimmed non-empty contents of the comment lines between the
\* "# Dependencies:" line and the first blank or non-comment line after it,
\* wherever that line is in the text, and nothing for a text without one
\* (stated for texts with at most one such line).
C11_BlockFoundAnywhere ==
    (InformalApplied /\ Cardinality(Headers) <= 1) =>
        /\ parsed.err = "none"
        /\ \A h \in Headers :
              parsed.deps =
                  ContentsOf(Lines, {i \in (h + 1)..(BlockEnd(h) - 1) :
                                        Content(Lines[i]) # <<>>})
        /\ Headers = {} => parsed.deps = <<>>

\* C11, amended: parse_informal_deps reads the text up to its first line that
\* is neither blank nor a comment; from that part it yields, in order, the
\* trimmed non-empty content of every comment line, other than a
\* "# Dependencies:" line, that has a "# Dependencies:" line before it with no
\* blank line between the two; it never raises, and a text without a
\* "# Dependencies:" line yields nothing.
C11_BlockFoundBeforeCode ==
    InformalApplied =>
        /\ parsed.err = "none"
        /\ parsed.deps = ContentsOf(Lines, Yielding)
        /\ Headers = {} => parsed.deps = <<>>

\* a block that yields something, in a text with a line that ends the scan
C11_Witness ==
    /\ InformalApplied
    /\ Yielding # {}
    /\ parsed.deps # <<>>
    /\ ScanEnd <= Len(Lines)

\* the script blocks of the text as PEP 723 delimits them: a "# /// script"
\* line, one or more content lines, and the first "# ///" line after it
ScriptBlocks ==
    {i \in DOMAIN Lines :
        /\ Lines[i] = ScriptStart
        /\ \E j \in (i + 2)..Len(Lines) :
              /\ Lines[j] = EndLine
              /\ \A m \in (i + 1)..(j - 1) :
                    IsContentLine(Lines[m]) /\ Lines[m] # EndLine}

\* the table of the text's only script block
Metadata == TomlLoads(ExtractToml(ScriptMatches(text)[1]))

OneBlockParsed ==
    /\ parsed.by = "parse_pep723_deps"
    /\ Cardinality(ScriptBlocks) = 1
    /\ Len(ScriptMatches(text)) = 1
    /\ Metadata.ok

\* a value of the block under the key that is not of the type wanted
WrongType(key, type) ==
    \E v \in Metadata.values : v.key = key /\ v.type # type

\* C12: for a text with exactly one script block, consuming parse_pep723_deps
\* raises ScriptError whenever the block's dependencies value is not a list
\* or its requires-python value is not a string, falsy values of a wrong type
\* included; and a text with more than one script block raises ScriptError.
C12_WrongTypeRaisesScriptError ==
    /\ (OneBlockParsed /\ (\/ WrongType("dependencies", "list")
                           \/ WrongType("requires-python", "str")))
           => parsed.err = "ScriptError"
    /\ (parsed.by = "parse_pep723_deps" /\ Cardinality(ScriptBlocks) > 1)
           => parsed.err = "ScriptError"

====
